---- MODULE Spec2Model ----
(***************************************************************************)
(* Per-user message queue of the assistant bot (src/src/app.ts).           *)
(*                                                                         *)
(* The program runs on one JavaScript event loop: a handler runs without   *)
(* interruption from its start, or from the point where an awaited promise *)
(* settles, up to its next await.  Every action below is one such run.     *)
(* The module-level maps userQueues and userLocks are modelled as          *)
(* functions whose domain is the set of keys the Map holds; the arrays     *)
(* held by userQueues are objects of a heap, so that two arrays for the    *)
(* same key are told apart.                                                *)
(***************************************************************************)
EXTENDS Integers, Sequences, FiniteSets, TLC

\* Bounds of the model.
MaxTasks == 3          \* inbound events over a run
MaxChunks == 2         \* chunks a response splits into
MaxVoice == 1          \* voice notes among the inbound events
MaxVoiceOnly == 2      \* voice notes of a run that holds voice notes only
MaxRespLen == 5        \* characters of a response whose chunks are computed

Users == {"u1", "u2"}
TaskIds == 1..MaxTasks

VARIABLES
    userQueues,   \* Map userId -> array (a heap address)
    userLocks,    \* Map userId -> boolean
    heap,         \* the arrays created by welcomeFlow, by address
    events,       \* inbound events in arrival order: [from, kind]
    hpc,          \* per event, where its flow handler is
    hqueue,       \* per event, the local `queue` of its handleQueue call
    hcur,         \* per event, the task its handleQueue call awaits (0: none)
    tpc,          \* per task, the await its processing is suspended at
    threw,        \* per task, whether an awaited call of its processing threw
    nchunks,      \* per task, the number of chunks of its response
    sent,         \* per task, the chunks delivered so far
    delivered,    \* per user, the chunks delivered, as <<task, index>>
    nstart,       \* per task, how often processing of it began (capped at 2)
    failedAt,     \* per task, the await whose call threw ("none": none did)
    speechFile,   \* the file at the speechFile path: the task whose speech it
                  \* holds, 0 when there is no file
    srcFile,      \* per voice note, its saved source audio file
    pending,      \* the fs.unlink requests issued and not yet carried out
    media,        \* per voice note, what its media answer sent: -1 not sent
                  \* yet, 0 no file, else the task whose speech the file held
    unlinkCalls,  \* per voice note, the files deleteFile was called for
    response,     \* a response of toAsk, as a sequence of characters
    emitted,      \* the bodies handed to flowDynamic for that response
    flow          \* the flow that emitted them ("none": not emitted yet)

fileVars == <<speechFile, srcFile, pending, media, unlinkCalls>>

chunkVars == <<response, emitted, flow>>

vars == <<userQueues, userLocks, heap, events, hpc, hqueue, hcur, tpc, threw,
          nchunks, sent, delivered, nstart, failedAt, speechFile, srcFile,
          pending, media, unlinkCalls, response, emitted, flow>>

nsub == Len(events)
nvoice == Cardinality({i \in 1..Len(events) : events[i].kind = "voice"})

----------------------------------------------------------------------------
\* Map operations.

MapHas(m, k) == k \in DOMAIN m

MapSet(m, k, v) == [x \in (DOMAIN m) \cup {k} |-> IF x = k THEN v ELSE m[x]]

MapDeleteKept(m, k) == m

MapDelete(m, k) == [x \in (DOMAIN m) \ {k} |-> m[x]]

EmptyMap == [x \in {} |-> 0]

\* The truthiness of userLocks.get(userId): undefined and false are falsy.
LockGetNever(locks, u) == FALSE

LockGetAnyKey(locks, u) == \E k \in DOMAIN locks : locks[k]

LockGet(locks, u) == MapHas(locks, u) /\ locks[u]

\* userLocks.set(userId, true)
AcquireSkipped(locks, u) == locks

Acquire(locks, u) == MapSet(locks, u, TRUE)

\* userLocks.set(userId, false)
Release(locks, u) == MapSet(locks, u, FALSE)

\* !userQueues.has(userId)
NeedsQueueAlways(queues, u) == TRUE

NeedsQueue(queues, u) == ~MapHas(queues, u)

\* queue.push(task)
PushFront(q, t) == <<t>> \o q

Push(q, t) == Append(q, t)

\* queue.shift(): the element returned, and the array left.
ShiftHead(q) == Head(q)

ShiftRestKept(q) == q

ShiftRest(q) == Tail(q)

\* !userLocks.get(userId) && queue.length === 1
StartsDrainNever(locked, len) == ~locked /\ len = 0

StartsDrain(locked, len) == ~locked /\ len = 1

\* Whether an error thrown by processUserMessage leaves handleQueue: the
\* catch clause takes every error.
EscapesOnError(err) == err

Escapes(err) == FALSE

Bump(n) == IF n < 2 THEN n + 1 ELSE 2

----------------------------------------------------------------------------
RegistryInit ==
    /\ userQueues = EmptyMap
    /\ userLocks = EmptyMap
    /\ heap = <<>>
    /\ events = <<>>
    /\ hpc = [t \in TaskIds |-> "none"]
    /\ hqueue = [t \in TaskIds |-> 0]
    /\ hcur = [t \in TaskIds |-> 0]
    /\ tpc = [t \in TaskIds |-> "new"]
    /\ threw = [t \in TaskIds |-> FALSE]
    /\ nchunks = [t \in TaskIds |-> 0]
    /\ sent = [t \in TaskIds |-> 0]
    /\ delivered = [u \in Users |-> <<>>]
    /\ nstart = [t \in TaskIds |-> 0]
    /\ failedAt = [t \in TaskIds |-> "none"]
    /\ speechFile = 0
    /\ srcFile = [t \in TaskIds |-> "none"]
    /\ pending = {}
    /\ media = [t \in TaskIds |-> -1]
    /\ unlinkCalls = [t \in TaskIds |-> {}]

Init ==
    /\ RegistryInit
    /\ response = <<>>
    /\ emitted = <<>>
    /\ flow = "none"

\* handleQueue from its loop test to its next await or its return, run by
\* the handler of event h for key u on array q, from the given map, heap and
\* task states.
DrainLoop(h, u, q, queues, locks, hp, tp) ==
    IF Len(hp[q]) > 0
    THEN LET t == ShiftHead(hp[q]) IN
         /\ userLocks' = Acquire(locks, u)
         /\ heap' = [hp EXCEPT ![q] = ShiftRest(hp[q])]
         /\ userQueues' = queues
         /\ hpc' = [hpc EXCEPT ![h] = "drain"]
         /\ hqueue' = [hqueue EXCEPT ![h] = q]
         /\ hcur' = [hcur EXCEPT ![h] = t]
         /\ tpc' = [tp EXCEPT ![t] = "typing"]
         /\ nstart' = [nstart EXCEPT ![t] = Bump(nstart[t])]
    ELSE /\ userLocks' = MapDelete(locks, u)
         /\ userQueues' = MapDelete(queues, u)
         /\ heap' = hp
         /\ hpc' = [hpc EXCEPT ![h] = "returned"]
         /\ hqueue' = [hqueue EXCEPT ![h] = q]
         /\ hcur' = [hcur EXCEPT ![h] = 0]
         /\ tpc' = tp
         /\ nstart' = nstart

\* handleQueue(userId) from its call to its first await or its return.
HandleQueue(h, u, queues, locks, hp, tp) ==
    LET q == queues[u] IN
    IF LockGet(locks, u)
    THEN /\ userLocks' = locks
         /\ userQueues' = queues
         /\ heap' = hp
         /\ hpc' = [hpc EXCEPT ![h] = "returned"]
         /\ hqueue' = [hqueue EXCEPT ![h] = q]
         /\ hcur' = hcur
         /\ tpc' = tp
         /\ nstart' = nstart
    ELSE DrainLoop(h, u, q, queues, locks, hp, tp)

\* The welcomeFlow action for a text message of user u.
Welcome(u) ==
    /\ nsub < MaxTasks
    /\ LET t == nsub + 1
           fresh == NeedsQueue(userQueues, u)
           hp1 == IF fresh THEN Append(heap, <<>>) ELSE heap
           queues1 == IF fresh THEN MapSet(userQueues, u, Len(hp1)) ELSE userQueues
           q == queues1[u]
           hp2 == [hp1 EXCEPT ![q] = Push(hp1[q], t)]
           tp1 == [tpc EXCEPT ![t] = "queued"]
       IN  /\ events' = Append(events, [from |-> u, kind |-> "text"])
           /\ IF StartsDrain(LockGet(userLocks, u), Len(hp2[q]))
              THEN HandleQueue(t, u, queues1, userLocks, hp2, tp1)
              ELSE /\ userQueues' = queues1
                   /\ userLocks' = userLocks
                   /\ heap' = hp2
                   /\ hpc' = [hpc EXCEPT ![t] = "returned"]
                   /\ tpc' = tp1
                   /\ UNCHANGED <<hqueue, hcur, nstart>>
    /\ UNCHANGED <<threw, nchunks, sent, delivered>>
    /\ UNCHANGED fileVars
    /\ UNCHANGED failedAt
    /\ UNCHANGED chunkVars

IsText(t) == t <= nsub /\ events[t].kind = "text"
IsVoice(t) == t <= nsub /\ events[t].kind = "voice"

\* processUserMessage: typing(ctx, provider) returned.
TypingDone(t) ==
    /\ IsText(t) /\ tpc[t] = "typing"
    /\ tpc' = [tpc EXCEPT ![t] = "ask"]
    /\ UNCHANGED <<userQueues, userLocks, heap, events, hpc, hqueue, hcur,
                   threw, nchunks, sent, delivered, nstart>>
    /\ UNCHANGED fileVars
    /\ UNCHANGED failedAt
    /\ UNCHANGED chunkVars

\* processUserMessage: toAsk returned a response that splits into n chunks.
AskDone(t, n) ==
    /\ IsText(t) /\ tpc[t] = "ask"
    /\ tpc' = [tpc EXCEPT ![t] = "send"]
    /\ nchunks' = [nchunks EXCEPT ![t] = n]
    /\ sent' = [sent EXCEPT ![t] = 0]
    /\ UNCHANGED <<userQueues, userLocks, heap, events, hpc, hqueue, hcur,
                   threw, delivered, nstart>>
    /\ UNCHANGED fileVars
    /\ UNCHANGED failedAt
    /\ UNCHANGED chunkVars

\* processUserMessage: flowDynamic delivered the next chunk.
SendDone(t) ==
    /\ IsText(t) /\ tpc[t] = "send"
    /\ sent' = [sent EXCEPT ![t] = sent[t] + 1]
    /\ delivered' = [delivered EXCEPT ![events[t].from] =
                        Append(@, <<t, sent[t] + 1>>)]
    /\ tpc' = [tpc EXCEPT ![t] = IF sent[t] + 1 = nchunks[t] THEN "settled" ELSE "send"]
    /\ UNCHANGED <<userQueues, userLocks, heap, events, hpc, hqueue, hcur,
                   threw, nchunks, nstart>>
    /\ UNCHANGED fileVars
    /\ UNCHANGED failedAt
    /\ UNCHANGED chunkVars

\* processUserMessage with a try/catch of its own around toAsk that answers
\* with a message of apology.
ThrowApologizes(t) ==
    /\ IsText(t) /\ tpc[t] \in {"typing", "ask", "send"}
    /\ tpc' = [tpc EXCEPT ![t] = IF tpc[t] = "ask" THEN "send" ELSE "settled"]
    /\ nchunks' = [nchunks EXCEPT ![t] = IF tpc[t] = "ask" THEN 1 ELSE @]
    /\ threw' = [threw EXCEPT ![t] = TRUE]
    /\ failedAt' = [failedAt EXCEPT ![t] = tpc[t]]
    /\ UNCHANGED <<userQueues, userLocks, heap, events, hpc, hqueue, hcur,
                   sent, delivered, nstart>>
    /\ UNCHANGED fileVars
    /\ UNCHANGED chunkVars

\* processUserMessage: the awaited call (typing, toAsk or flowDynamic) threw.
Throw(t) ==
    /\ IsText(t) /\ tpc[t] \in {"typing", "ask", "send"}
    /\ tpc' = [tpc EXCEPT ![t] = "settled"]
    /\ threw' = [threw EXCEPT ![t] = TRUE]
    /\ failedAt' = [failedAt EXCEPT ![t] = tpc[t]]
    /\ UNCHANGED <<userQueues, userLocks, heap, events, hpc, hqueue, hcur,
                   nchunks, sent, delivered, nstart>>
    /\ UNCHANGED fileVars
    /\ UNCHANGED chunkVars

\* handleQueue resumes after `await processUserMessage`: catch, finally, and
\* the loop up to the next await or the return.
Resume(h) ==
    /\ hpc[h] = "drain"
    /\ tpc[hcur[h]] = "settled"
    /\ LET u == events[h].from
           t == hcur[h]
           locks1 == Release(userLocks, u)
           tp1 == [tpc EXCEPT ![t] = "finished"]
       IN  IF Escapes(threw[t])
           THEN /\ userLocks' = locks1
                /\ hpc' = [hpc EXCEPT ![h] = "crashed"]
                /\ hcur' = [hcur EXCEPT ![h] = 0]
                /\ tpc' = tp1
                /\ UNCHANGED <<userQueues, heap, hqueue, nstart>>
           ELSE DrainLoop(h, u, hqueue[h], userQueues, locks1, heap, tp1)
    /\ UNCHANGED <<events, threw, nchunks, sent, delivered>>
    /\ UNCHANGED fileVars
    /\ UNCHANGED failedAt
    /\ UNCHANGED chunkVars

\* The stages of the voiceNoteFlow handler that neither choose a response nor
\* deliver a chunk, each named after the call it awaits, and the stage that
\* follows when the call returns.
VoiceAfter(stage) ==
    CASE stage = "saveFile" -> "transcribe"
      [] stage = "transcribe" -> "vtyping"
      [] stage = "vtyping" -> "vask"
      [] stage = "speech" -> "buffer"
      [] stage = "buffer" -> "writeFile"
      [] stage = "writeFile" -> "recording"
      [] stage = "recording" -> "unlinkSource"
      [] stage = "unlinkSource" -> "media"
      [] stage = "media" -> "unlinkSpeech"
      [] stage = "unlinkSpeech" -> "finished"

\* The awaits inside the try block of voiceNoteFlow whose call may throw.
VoiceTryStages == {"saveFile", "transcribe", "vtyping", "vask", "vsend",
                   "speech", "buffer", "writeFile", "recording"}

\* Whether deleteFile(localPath) is called as the step that leaves the
\* given await ends: it is the last statement of the try block, reached when
\* recording(ctx, provider) returned.
UnlinksSourceAlways(stage, failed) == stage = "recording" \/ failed

UnlinksSource(stage, failed) == stage = "recording" /\ ~failed

\* The voiceNoteFlow handler starts for a voice note of user u and calls
\* provider.saveFile.
VoiceArrive(u) ==
    /\ nsub < MaxTasks
    /\ LET t == nsub + 1 IN
       /\ events' = Append(events, [from |-> u, kind |-> "voice"])
       /\ hpc' = [hpc EXCEPT ![t] = "voice"]
       /\ tpc' = [tpc EXCEPT ![t] = "saveFile"]
       /\ nstart' = [nstart EXCEPT ![t] = Bump(nstart[t])]
    /\ UNCHANGED <<userQueues, userLocks, heap, hqueue, hcur, threw, nchunks,
                   sent, delivered>>
    /\ UNCHANGED fileVars
    /\ UNCHANGED failedAt
    /\ UNCHANGED chunkVars

VoiceNote(u) ==
    /\ nvoice < MaxVoice
    /\ VoiceArrive(u)

\* voiceNoteFlow: an awaited call other than toAsk and flowDynamic returned.
\* saveFile has saved the source audio; writeFile has written this task's
\* speech to the speechFile path; after recording deleteFile(localPath) is
\* called; the media answer sends what the speechFile path holds and the
\* last action calls deleteFile(speechFile).
VoiceAdvance(t) ==
    /\ IsVoice(t) /\ tpc[t] \in {"saveFile", "transcribe", "vtyping", "speech",
           "buffer", "writeFile", "recording", "unlinkSource", "media", "unlinkSpeech"}
    /\ tpc' = [tpc EXCEPT ![t] = VoiceAfter(tpc[t])]
    /\ hpc' = [hpc EXCEPT ![t] = IF tpc[t] = "unlinkSpeech" THEN "returned" ELSE @]
    /\ srcFile' = IF tpc[t] = "saveFile" THEN [srcFile EXCEPT ![t] = "saved"] ELSE srcFile
    /\ speechFile' = IF tpc[t] = "writeFile" THEN t ELSE speechFile
    /\ media' = IF tpc[t] = "media" THEN [media EXCEPT ![t] = speechFile] ELSE media
    /\ LET calls == (IF UnlinksSource(tpc[t], FALSE) THEN {"source"} ELSE {})
                      \cup (IF tpc[t] = "media" THEN {"speech"} ELSE {})
       IN  /\ pending' = pending \cup {<<f, t>> : f \in calls}
           /\ unlinkCalls' = [unlinkCalls EXCEPT ![t] = @ \cup calls]
    /\ UNCHANGED <<userQueues, userLocks, heap, events, hqueue, hcur, threw,
                   nchunks, sent, delivered, nstart, failedAt>>
    /\ UNCHANGED chunkVars

\* voiceNoteFlow: toAsk returned a response that splits into n chunks.
VoiceAskDone(t, n) ==
    /\ IsVoice(t) /\ tpc[t] = "vask"
    /\ tpc' = [tpc EXCEPT ![t] = "vsend"]
    /\ nchunks' = [nchunks EXCEPT ![t] = n]
    /\ sent' = [sent EXCEPT ![t] = 0]
    /\ UNCHANGED <<userQueues, userLocks, heap, events, hpc, hqueue, hcur,
                   threw, delivered, nstart>>
    /\ UNCHANGED fileVars
    /\ UNCHANGED failedAt
    /\ UNCHANGED chunkVars

\* voiceNoteFlow: flowDynamic delivered the next chunk; after the last one
\* generateSpeech is called.
VoiceSendDone(t) ==
    /\ IsVoice(t) /\ tpc[t] = "vsend"
    /\ sent' = [sent EXCEPT ![t] = sent[t] + 1]
    /\ delivered' = [delivered EXCEPT ![events[t].from] =
                        Append(@, <<t, sent[t] + 1>>)]
    /\ tpc' = [tpc EXCEPT ![t] = IF sent[t] + 1 = nchunks[t] THEN "speech" ELSE "vsend"]
    /\ UNCHANGED <<userQueues, userLocks, heap, events, hpc, hqueue, hcur,
                   threw, nchunks, nstart>>
    /\ UNCHANGED fileVars
    /\ UNCHANGED failedAt
    /\ UNCHANGED chunkVars

\* voiceNoteFlow: an awaited call inside the try block threw; the catch
\* clause logs it and the flow goes on to its media answer.
VoiceThrow(t) ==
    /\ IsVoice(t) /\ tpc[t] \in VoiceTryStages
    /\ tpc' = [tpc EXCEPT ![t] = "media"]
    /\ threw' = [threw EXCEPT ![t] = TRUE]
    /\ failedAt' = [failedAt EXCEPT ![t] = tpc[t]]
    /\ LET calls == IF UnlinksSource(tpc[t], TRUE) THEN {"source"} ELSE {}
       IN  /\ pending' = pending \cup {<<f, t>> : f \in calls}
           /\ unlinkCalls' = [unlinkCalls EXCEPT ![t] = @ \cup calls]
    /\ UNCHANGED <<userQueues, userLocks, heap, events, hpc, hqueue, hcur,
                   nchunks, sent, delivered, nstart, speechFile, srcFile, media>>
    /\ UNCHANGED chunkVars

\* deleteFile: the fs.unlink requested by task t for its source file or for
\* the speechFile path is carried out, some time after deleteFile returned.
UnlinkRun(f, t) ==
    /\ <<f, t>> \in pending
    /\ pending' = pending \ {<<f, t>>}
    /\ srcFile' = IF f = "source" /\ srcFile[t] = "saved"
                  THEN [srcFile EXCEPT ![t] = "deleted"] ELSE srcFile
    /\ speechFile' = IF f = "speech" THEN 0 ELSE speechFile
    /\ UNCHANGED <<userQueues, userLocks, heap, events, hpc, hqueue, hcur, tpc,
                   threw, nchunks, sent, delivered, nstart, failedAt, media,
                   unlinkCalls>>
    /\ UNCHANGED chunkVars

Next ==
    \/ \E u \in Users : Welcome(u)
    \/ \E u \in Users : VoiceNote(u)
    \/ \E t \in TaskIds : TypingDone(t)
    \/ \E t \in TaskIds, n \in 1..MaxChunks : AskDone(t, n)
    \/ \E t \in TaskIds : SendDone(t)
    \/ \E t \in TaskIds : Throw(t)
    \/ \E h \in TaskIds : Resume(h)
    \/ \E t \in TaskIds : VoiceAdvance(t)
    \/ \E t \in TaskIds, n \in 1..MaxChunks : VoiceAskDone(t, n)
    \/ \E t \in TaskIds : VoiceSendDone(t)
    \/ \E t \in TaskIds : VoiceThrow(t)
    \/ \E t \in TaskIds, f \in {"source", "speech"} : UnlinkRun(f, t)

Spec == Init /\ [][Next]_vars

\* Every step but the arrival of an event: a continuation whose awaited
\* call has settled.  The event loop runs every ready continuation.
Progress ==
    \/ \E t \in TaskIds : TypingDone(t)
    \/ \E t \in TaskIds, n \in 1..MaxChunks : AskDone(t, n)
    \/ \E t \in TaskIds : SendDone(t)
    \/ \E t \in TaskIds : Throw(t)
    \/ \E h \in TaskIds : Resume(h)
    \/ \E t \in TaskIds : VoiceAdvance(t)
    \/ \E t \in TaskIds, n \in 1..MaxChunks : VoiceAskDone(t, n)
    \/ \E t \in TaskIds : VoiceSendDone(t)
    \/ \E t \in TaskIds : VoiceThrow(t)
    \/ \E t \in TaskIds, f \in {"source", "speech"} : UnlinkRun(f, t)

FairSpec == Spec /\ WF_vars(Progress)

\* Runs that hold text messages only: the events welcomeFlow pushes on the
\* queues.  The voiceNoteFlow steps read and write none of userQueues,
\* userLocks, the arrays, or the state of a text task.
QueueNext ==
    \/ \E u \in Users : Welcome(u)
    \/ \E t \in TaskIds : TypingDone(t)
    \/ \E t \in TaskIds, n \in 1..MaxChunks : AskDone(t, n)
    \/ \E t \in TaskIds : SendDone(t)
    \/ \E t \in TaskIds : Throw(t)
    \/ \E h \in TaskIds : Resume(h)

QueueProgress ==
    \/ \E t \in TaskIds : TypingDone(t)
    \/ \E t \in TaskIds, n \in 1..MaxChunks : AskDone(t, n)
    \/ \E t \in TaskIds : SendDone(t)
    \/ \E t \in TaskIds : Throw(t)
    \/ \E h \in TaskIds : Resume(h)

QueueFairSpec == Init /\ [][QueueNext]_vars /\ WF_vars(QueueProgress)

\* Runs that hold voice notes only.
VoiceOnlyNote(u) ==
    /\ nsub < MaxVoiceOnly
    /\ VoiceArrive(u)

VoiceNext ==
    \/ \E u \in Users : VoiceOnlyNote(u)
    \/ \E t \in TaskIds : VoiceAdvance(t)
    \/ \E t \in TaskIds, n \in 1..MaxChunks : VoiceAskDone(t, n)
    \/ \E t \in TaskIds : VoiceSendDone(t)
    \/ \E t \in TaskIds : VoiceThrow(t)
    \/ \E t \in TaskIds, f \in {"source", "speech"} : UnlinkRun(f, t)

VoiceSpec == Init /\ [][VoiceNext]_vars


----------------------------------------------------------------------------
\* The split and the cleaning of a response.  A response is a sequence of
\* characters of these classes: a letter, a digit, a full stop, a space, a
\* line feed, and the brackets of a citation marker.
Chars == {"a", "1", ".", " ", "LF", "[[", "]]"}

IsSpace(c) == c \in {" ", "LF"}

\* The first index from i on that holds no character of set cs (Len(s) + 1
\* when there is none).
RECURSIVE SkipWhile(_, _, _)
SkipWhile(s, i, cs) ==
    IF i <= Len(s) /\ s[i] \in cs THEN SkipWhile(s, i + 1, cs) ELSE i

\* response.split(/\n\n+/): the pieces between the runs of two or more line
\* feeds; piece cur is being collected, i is the next index to read.
RECURSIVE SplitParagraphs(_, _, _)
SplitParagraphs(s, i, cur) ==
    IF i > Len(s) THEN <<cur>>
    ELSE IF s[i] = "LF" /\ i + 1 <= Len(s) /\ s[i + 1] = "LF"
         THEN <<cur>> \o SplitParagraphs(s, SkipWhile(s, i, {"LF"}), <<>>)
         ELSE SplitParagraphs(s, i + 1, Append(cur, s[i]))

\* response.split(/(?<!\d)\.\s+/g): the pieces between the full stops that
\* no digit precedes and that white space follows, the white space included.
RECURSIVE SplitSentences(_, _, _)
SplitSentences(s, i, cur) ==
    IF i > Len(s) THEN <<cur>>
    ELSE IF /\ s[i] = "."
            /\ (i = 1 \/ s[i - 1] # "1")
            /\ i + 1 <= Len(s) /\ IsSpace(s[i + 1])
         THEN <<cur>> \o SplitSentences(s, SkipWhile(s, i + 1, {" ", "LF"}), <<>>)
         ELSE SplitSentences(s, i + 1, Append(cur, s[i]))

\* chunk.trim()
RECURSIVE TrimLeft(_)
TrimLeft(s) == IF s # <<>> /\ IsSpace(Head(s)) THEN TrimLeft(Tail(s)) ELSE s

RECURSIVE TrimRight(_)
TrimRight(s) ==
    IF s # <<>> /\ IsSpace(s[Len(s)]) THEN TrimRight(SubSeq(s, 1, Len(s) - 1)) ELSE s

Trim(s) == TrimRight(TrimLeft(s))

\* The ends j of a match of /[[.*?]]/ followed by `tail` that starts at the
\* opening bracket at i: a closing bracket with no line feed between.
MarkerEnds(s, i, tail) ==
    {j \in (i + 1)..Len(s) :
        /\ s[j] = "]]"
        /\ \A k \in (i + 1)..(j - 1) : s[k] # "LF"
        /\ j + Len(tail) <= Len(s)
        /\ \A k \in 1..Len(tail) : s[j + k] = tail[k]}

Min(S) == CHOOSE x \in S : \A y \in S : x <= y

\* s.replace(re, "") for the global pattern marker + tail, read from i on:
\* the leftmost match, the shortest one from its start, is dropped and the
\* scan goes on behind it.
RECURSIVE DropMarkers(_, _, _)
DropMarkers(s, i, tail) ==
    IF i > Len(s) THEN <<>>
    ELSE IF s[i] = "[[" /\ MarkerEnds(s, i, tail) # {}
         THEN DropMarkers(s, Min(MarkerEnds(s, i, tail)) + Len(tail) + 1, tail)
         ELSE <<s[i]>> \o DropMarkers(s, i + 1, tail)

\* chunk.trim().replace(/[[.*?]][ ] /g, "") of processUserMessage: the
\* pattern ends with a space class and a space.
CleanTextChunk(c) == DropMarkers(Trim(c), 1, <<" ", " ">>)

\* chunk.trim().replace(/[[.*?]]/g, "") of voiceNoteFlow.
CleanVoiceChunk(c) == DropMarkers(Trim(c), 1, <<>>)

\* The bodies processUserMessage hands to flowDynamic, in order.
TextChunks(s) ==
    LET parts == SplitParagraphs(s, 1, <<>>)
    IN  [i \in 1..Len(parts) |-> CleanTextChunk(parts[i])]

\* The bodies voiceNoteFlow hands to flowDynamic, in order.
VoiceChunks(s) ==
    LET parts == SplitSentences(s, 1, <<>>)
    IN  [i \in 1..Len(parts) |-> CleanVoiceChunk(parts[i])]

Responses == UNION {[1..n -> Chars] : n \in 0..MaxRespLen}

ChunkInit ==
    /\ RegistryInit
    /\ response \in Responses
    /\ emitted = <<>>
    /\ flow = "none"

\* processUserMessage splits the response and sends its chunks.
EmitText ==
    /\ flow = "none"
    /\ emitted' = TextChunks(response)
    /\ flow' = "text"
    /\ UNCHANGED <<userQueues, userLocks, heap, events, hpc, hqueue, hcur, tpc,
                   threw, nchunks, sent, delivered, nstart, failedAt, response>>
    /\ UNCHANGED fileVars

\* voiceNoteFlow splits the response and sends its chunks.
EmitVoice ==
    /\ flow = "none"
    /\ emitted' = VoiceChunks(response)
    /\ flow' = "voice"
    /\ UNCHANGED <<userQueues, userLocks, heap, events, hpc, hqueue, hcur, tpc,
                   threw, nchunks, sent, delivered, nstart, failedAt, response>>
    /\ UNCHANGED fileVars

ChunkNext == EmitText \/ EmitVoice

ChunkSpec == ChunkInit /\ [][ChunkNext]_vars

----------------------------------------------------------------------------
\* Vocabulary of the properties.

From(t) == events[t].from

\* Task t is inside processUserMessage, suspended at one of its awaits.
Processing(t) == IsText(t) /\ tpc[t] \in {"typing", "ask", "send"}

\* Task t was shifted by a drain loop that has not yet resumed after it.
InFlight(t) == IsText(t) /\ tpc[t] \in {"typing", "ask", "send", "settled"}

Queued(t) == IsText(t) /\ tpc[t] = "queued"

\* processUserMessage has returned or thrown for task t.
Completed(t) == IsText(t) /\ tpc[t] \in {"settled", "finished"}

Begun(t) == IsText(t) /\ tpc[t] \notin {"new", "queued"}

\* The voiceNoteFlow action of voice note t is inside its try block.
VoiceProcessing(t) == IsVoice(t) /\ tpc[t] \in VoiceTryStages

Drains(u) == {h \in 1..nsub : IsText(h) /\ From(h) = u /\ hpc[h] = "drain"}

\* C1: for every key at most one task submitted through welcomeFlow is
\* inside processUserMessage at any time.
C1_AtMostOneInFlight ==
    \A u \in Users :
        Cardinality({t \in 1..nsub : From(t) = u /\ Processing(t)}) <= 1

\* A task of a key is sending its chunks while another task arrived for the
\* same key and waits in the queue.
C1_Witness ==
    \E a, b \in 1..nsub :
        /\ a # b /\ From(a) = From(b)
        /\ tpc[a] = "send" /\ sent[a] >= 1 /\ Queued(b)

\* C2: of two tasks pushed for the same key, the later begins processing
\* only after processUserMessage has returned or thrown for the earlier.
C2_FifoPerKey ==
    \A a, b \in 1..nsub :
        (a < b /\ IsText(a) /\ IsText(b) /\ From(a) = From(b) /\ Begun(b))
            => Completed(a)

\* Three tasks of one key: the first threw, the second finished, the third
\* is being processed.
C2_Witness ==
    \E u \in Users :
        /\ nsub >= 3
        /\ \A t \in 1..3 : IsText(t) /\ From(t) = u
        /\ tpc[1] = "finished" /\ threw[1]
        /\ tpc[2] = "finished" /\ ~threw[2]
        /\ Processing(3)

\* C3: a voice note of a user is never processed while another task of the
\* same user, text or voice, is being processed.
C3_VoiceSerialized ==
    \A a, b \in 1..nsub :
        (a # b /\ From(a) = From(b) /\ VoiceProcessing(a))
            => ~(Processing(b) \/ VoiceProcessing(b))

\* C4: a key has at most one active drain loop, and exactly one whenever it
\* has a queued or in-flight task.
C4_OneDrainPerKey ==
    \A u \in Users :
        /\ Cardinality(Drains(u)) <= 1
        /\ (\E t \in 1..nsub : From(t) = u /\ (Queued(t) \/ InFlight(t)))
               => Cardinality(Drains(u)) = 1

\* Two submits of one key, one drain loop: the handler of the second has
\* returned while its task waits behind the first.
C4_Witness ==
    \E a, b \in 1..nsub :
        /\ a < b /\ IsText(a) /\ IsText(b) /\ From(a) = From(b)
        /\ hpc[a] = "drain" /\ hcur[a] = a /\ hpc[b] = "returned" /\ Queued(b)

\* C5: an error thrown while a task is processed never leaves the drain
\* loop, the lock of the key is not left held, and every task that waits in
\* a queue, of that key or of another, is processed afterwards.
C5_FailureIsolated ==
    /\ [](\A h \in TaskIds : hpc[h] # "crashed")
    /\ [](\A u \in Users :
            LockGet(userLocks, u) => \E t \in 1..nsub : From(t) = u /\ InFlight(t))
    /\ \A b \in TaskIds :
          (Queued(b) /\ \E a \in 1..nsub : IsText(a) /\ threw[a])
              ~> (tpc[b] = "finished")

\* A task finished after the task before it, of the same key, threw while a
\* chunk was being delivered.
C5_Witness ==
    \E a, b \in 1..nsub :
        /\ a < b /\ IsText(a) /\ IsText(b) /\ From(a) = From(b)
        /\ threw[a] /\ nchunks[a] > 0 /\ tpc[a] = "finished"
        /\ tpc[b] = "finished" /\ hpc[a] = "returned"

\* C6: every task pushed by welcomeFlow is processed, and processed once.
C6_ExactlyOnce ==
    /\ [](\A t \in TaskIds : nstart[t] <= 1)
    /\ \A t \in TaskIds : IsText(t) ~> (tpc[t] = "finished" /\ nstart[t] = 1)

\* Every event of a full run was a text message of one key and every task
\* was processed.
C6_Witness ==
    /\ nsub = MaxTasks
    /\ \A t \in 1..nsub : IsText(t) /\ From(t) = From(1) /\ tpc[t] = "finished"

\* C7: a key with no queued and no in-flight task has no entry in userQueues
\* and none in userLocks; a key with such a task has an entry in userQueues.
C7_RegistryLifecycle ==
    \A u \in Users :
        IF \E t \in 1..nsub : From(t) = u /\ (Queued(t) \/ InFlight(t))
        THEN MapHas(userQueues, u)
        ELSE ~MapHas(userQueues, u) /\ ~MapHas(userLocks, u)

\* The tasks of a key were processed and its entries are gone.
C7_Witness ==
    \E t \in 1..nsub :
        /\ IsText(t) /\ tpc[t] = "finished" /\ hpc[t] = "returned"
        /\ ~MapHas(userQueues, From(t)) /\ ~MapHas(userLocks, From(t))

\* C8: no task is ever held by an array that userQueues no longer maps, a
\* drain loop always works on the array userQueues maps its key to, and a
\* submit that finds no entry for its key creates a new array and begins to
\* process its task.
C8_NoStaleQueue ==
    /\ [](\A q \in 1..Len(heap) :
            heap[q] # <<>> => \E u \in DOMAIN userQueues : userQueues[u] = q)
    /\ [](\A h \in 1..nsub :
            (IsText(h) /\ hpc[h] = "drain")
                => MapHas(userQueues, From(h)) /\ userQueues[From(h)] = hqueue[h])
    /\ [][\A u \in Users :
            (~MapHas(userQueues, u) /\ nsub' = nsub + 1
               /\ events'[nsub + 1] = [from |-> u, kind |-> "text"])
            => /\ userQueues'[u] = Len(heap) + 1
               /\ heap'[Len(heap) + 1] = <<>>
               /\ hcur'[nsub + 1] = nsub + 1
               /\ tpc'[nsub + 1] = "typing"]_vars

\* A drain of a key returned and deleted its array; a later submit of the
\* key works on a newer array.
C8_Witness ==
    \E a, b \in 1..nsub :
        /\ a < b /\ IsText(a) /\ IsText(b) /\ From(a) = From(b)
        /\ hpc[a] = "returned" /\ hqueue[a] # 0
        /\ hpc[b] = "drain" /\ hqueue[b] > hqueue[a]
        /\ userQueues[From(b)] = hqueue[b] /\ Processing(b)

\* C9: a submit for a key that has no entry begins to process its task at
\* once, whatever the locks and queues of the other keys hold.
C9_KeysIndependent ==
    [][\A u \in Users :
          (~MapHas(userQueues, u) /\ nsub' = nsub + 1
             /\ events'[nsub + 1] = [from |-> u, kind |-> "text"])
          => tpc'[nsub + 1] = "typing"]_vars

\* Tasks of two keys are inside processUserMessage at the same time.
C9_Witness ==
    \E a, b \in 1..nsub :
        From(a) # From(b) /\ Processing(a) /\ Processing(b)

\* C10: the chunks delivered to a user form, for each task, one contiguous
\* run in split order.
C10_ChunksContiguous ==
    \A u \in Users :
        LET log == delivered[u] IN
        \A i, j \in 1..Len(log) :
            (i < j /\ log[i][1] = log[j][1])
                => /\ log[i][2] < log[j][2]
                   /\ \A k \in i..j : log[k][1] = log[i][1]

\* C12: no key has, in any state a handler can observe, an entry with a
\* non-empty queue while its lock is not true and no drain loop is active.
C12_IdleUnreachable ==
    \A u \in Users :
        ~(/\ MapHas(userQueues, u)
          /\ heap[userQueues[u]] # <<>>
          /\ ~LockGet(userLocks, u)
          /\ Drains(u) = {})

\* A key has a non-empty queue while its lock is true and its drain loop
\* awaits a task.
C12_Witness ==
    \E u \in Users :
        /\ MapHas(userQueues, u) /\ Len(heap[userQueues[u]]) >= 2
        /\ LockGet(userLocks, u) /\ Cardinality(Drains(u)) = 1

\* C18: userLocks has an entry for a key exactly when userQueues has one,
\* and every entry of userLocks is true.
C18_LocksMatchQueues ==
    \A u \in Users :
        /\ MapHas(userLocks, u) <=> MapHas(userQueues, u)
        /\ MapHas(userLocks, u) => userLocks[u] = TRUE

\* A submit arrived for a key right after a task of the key was processed
\* and before the drain loop resumed: both entries exist, the lock is true.
C18_Witness ==
    \E a, b \in 1..nsub :
        /\ a < b /\ IsText(a) /\ IsText(b) /\ From(a) = From(b)
        /\ tpc[a] = "settled" /\ Queued(b)
        /\ MapHas(userQueues, From(a)) /\ userLocks[From(a)] = TRUE

\* C19: the handler that started a drain loop leaves it only when its key
\* has no queued and no in-flight task left; the handler of a submit that
\* arrives while a drain loop is active returns in the same step with its
\* task still queued, and the handler of a submit for a key without a drain
\* loop stays in the loop.
C19_DrainHandlerWaits ==
    [][/\ \A h \in 1..nsub :
            (hpc[h] = "drain" /\ hpc'[h] # "drain")
                => /\ hpc'[h] = "returned"
                   /\ \A t \in 1..nsub :
                        (IsText(t) /\ From(t) = From(h))
                            => tpc'[t] = "finished"
       /\ \A u \in Users :
            (nsub' = nsub + 1 /\ events'[nsub + 1] = [from |-> u, kind |-> "text"])
                => IF Drains(u) # {}
                   THEN hpc'[nsub + 1] = "returned" /\ tpc'[nsub + 1] = "queued"
                   ELSE hpc'[nsub + 1] = "drain"]_vars

\* The handler of the first submit of a key has returned after processing
\* the tasks of two later submits, whose handlers returned before it.
C19_Witness ==
    \E u \in Users :
        /\ nsub >= 3
        /\ \A t \in 1..3 : IsText(t) /\ From(t) = u /\ tpc[t] = "finished"
        /\ hqueue[1] # 0 /\ hqueue[2] = 0 /\ hqueue[3] = 0
        /\ \A t \in 1..3 : hpc[t] = "returned"

\* The chunk indices of task t in the chunks delivered to its user, in
\* delivery order.
ChunksOf(t) ==
    LET log == delivered[From(t)]
        F[i \in 0..Len(log)] ==
            IF i = 0 THEN <<>>
            ELSE IF log[i][1] = t THEN Append(F[i - 1], log[i][2]) ELSE F[i - 1]
    IN  F[Len(log)]

\* C13: a text task whose toAsk call throws delivers no chunk, then or
\* later; what was delivered before stays delivered; and a text task that
\* ran to its end without error delivered exactly the chunks of its response.
C13_FailedTaskDeliversNothing ==
    /\ [][\A t \in 1..nsub :
            (IsText(t) /\ tpc[t] = "ask" /\ threw'[t])
                => sent'[t] = 0 /\ nchunks'[t] = 0]_vars
    /\ [](\A t \in 1..nsub :
            (IsText(t) /\ failedAt[t] = "ask") => ChunksOf(t) = <<>> /\ sent[t] = 0)
    /\ [][\A u \in Users :
            /\ Len(delivered[u]) <= Len(delivered'[u])
            /\ SubSeq(delivered'[u], 1, Len(delivered[u])) = delivered[u]]_vars
    /\ [](\A t \in 1..nsub :
            (Completed(t) /\ ~threw[t])
                => ChunksOf(t) = [i \in 1..nchunks[t] |-> i])

\* Three tasks of one key: the first delivered its chunks, the second threw
\* before it had a response, the third delivered its chunks after that.
C13_Witness ==
    \E u \in Users :
        /\ nsub >= 3
        /\ \A t \in 1..3 : IsText(t) /\ From(t) = u /\ tpc[t] = "finished"
        /\ ~threw[1] /\ failedAt[2] = "ask" /\ ~threw[3]
        /\ delivered[u] = <<<<1, 1>>, <<1, 2>>, <<3, 1>>, <<3, 2>>>>

\* C14: a voice note whose saveFile, transcription, completion or speech
\* synthesis call threw has no speech audio delivered by its media answer.
C14_FailedVoiceAbandoned ==
    \A t \in 1..nsub :
        (IsVoice(t) /\ failedAt[t] \in {"saveFile", "transcribe", "vask", "speech", "buffer"})
            => media[t] <= 0

\* C15: the speech audio a voice note's media answer delivers is the speech
\* synthesized from that voice note's own response.
C15_OwnSpeechDelivered ==
    \A t \in 1..nsub :
        (IsVoice(t) /\ ~threw[t] /\ media[t] > 0) => media[t] = t

\* C16: while the speech file holds the speech of a voice note whose media
\* answer has not been sent yet, no step deletes the file.
C16_SpeechKeptUntilSent ==
    [][\A t \in 1..nsub :
          (/\ IsVoice(t) /\ ~threw[t]
           /\ tpc[t] \in {"recording", "unlinkSource", "media"}
           /\ speechFile = t)
              => speechFile' # 0]_vars

\* C20: a voice note one of whose awaited calls threw never has deleteFile
\* called for its source file, which is never deleted, while deleteFile is
\* called for the speechFile path once its media answer is sent; a voice
\* note that ran without error has deleteFile called for its source file.
C20_SourceKeptOnFailure ==
    \A t \in 1..nsub :
        IsVoice(t) =>
            /\ threw[t] => /\ "source" \notin unlinkCalls[t]
                           /\ <<"source", t>> \notin pending
                           /\ srcFile[t] # "deleted"
            /\ tpc[t] \in {"unlinkSpeech", "finished"} => "speech" \in unlinkCalls[t]
            /\ (~threw[t] /\ tpc[t] \in {"unlinkSource", "media", "unlinkSpeech", "finished"})
                   => "source" \in unlinkCalls[t]

\* The recording call of a voice note threw after its speech was written:
\* the flow has ended, the unlink of the speech file was carried out and the
\* saved source file is still there.
C20_Witness ==
    \E t \in 1..nsub :
        /\ IsVoice(t) /\ failedAt[t] = "recording" /\ tpc[t] = "finished"
        /\ srcFile[t] = "saved" /\ unlinkCalls[t] = {"speech"}
        /\ pending = {} /\ speechFile = 0 /\ media[t] = t

\* A citation marker: an opening bracket and a later closing bracket of the
\* same line.
HasMarker(c) ==
    \E i, j \in 1..Len(c) :
        /\ i < j /\ c[i] = "[[" /\ c[j] = "]]"
        /\ \A k \in (i + 1)..(j - 1) : c[k] # "LF"

\* The blank-line separators of a response: the starts of its runs of two
\* or more line feeds.
Separators(s) ==
    {i \in 1..Len(s) :
        /\ s[i] = "LF" /\ i + 1 <= Len(s) /\ s[i + 1] = "LF"
        /\ (i = 1 \/ s[i - 1] # "LF")}

\* C11: a text task emits one chunk for each paragraph of its response, and
\* no emitted chunk holds a citation marker.
C11_MarkersStripped ==
    flow = "text" =>
        /\ Len(emitted) = Cardinality(Separators(response)) + 1
        /\ \A i \in 1..Len(emitted) : ~HasMarker(emitted[i])

\* C17: every chunk emitted for a response, by either flow, is non-empty.
C17_ChunksNonEmpty ==
    flow # "none" => \A i \in 1..Len(emitted) : emitted[i] # <<>>

TypeOK ==
    /\ DOMAIN userQueues \subseteq Users
    /\ DOMAIN userLocks \subseteq Users
    /\ nsub <= MaxTasks
====
